---- MODULE Spec2Model ----
(***************************************************************************)
(* A model of accounts.py: the classes BasicAccount and PremiumAccount,    *)
(* the class-level counter account_num, and every method that changes an   *)
(* account.  Monetary amounts are Python floats; they are modelled as a    *)
(* binary floating-point format with round-to-nearest-even, infinities and *)
(* NaN whose mantissa width and exponent range are bounds of the model.    *)
(***************************************************************************)
EXTENDS Integers, Sequences, FiniteSets, TLC

VARIABLES account_num, accounts, last

vars == <<account_num, accounts, last>>

(***************************************************************************)
(* Bounds.                                                                 *)
(***************************************************************************)
\* number of account objects constructed in one run
MaxAccounts == 2
\* mantissa width of the float format, in bits (53 for a Python float)
Precision == 2
\* largest exponent of the float format: the unit in the last place of the
\* largest finite values is 2^MaxExp (2^971 for a Python float)
MaxExp == 1

(***************************************************************************)
(* Python floats.  A finite float is an integer multiple of the smallest   *)
(* positive float, which is the unit of val.                               *)
(***************************************************************************)
Pow2(n) == 2 ^ n

MaxFinite == (Pow2(Precision) - 1) * Pow2(MaxExp)

F(v) == [cls |-> "finite", val |-> v]
PosInf == [cls |-> "inf", val |-> 1]
NegInf == [cls |-> "inf", val |-> -1]
NaN == [cls |-> "nan", val |-> 0]

Abs(n) == IF n < 0 THEN -n ELSE n

\* the spacing of the floats around a magnitude m >= 0
RECURSIVE Ulp(_, _)
Ulp(m, u) == IF m < Pow2(Precision) * u THEN u ELSE Ulp(m, 2 * u)

\* q * u + r rounded to a multiple of u: to the nearest, a tie to the even
TiesToEven(u, q, r) ==
    IF 2 * r < u THEN q * u
    ELSE IF 2 * r > u THEN (q + 1) * u
    ELSE IF q % 2 = 0 THEN q * u ELSE (q + 1) * u

\* round-to-nearest, ties to even, of a magnitude m >= 0 whose spacing is u
Nearest(m, u) == TiesToEven(u, m \div u, m % u)
RoundMag(m) == Nearest(m, Ulp(m, 1))

\* the float of magnitude m with the sign of n; overflow gives an infinity
Signed(n, m) ==
    IF m > MaxFinite
    THEN (IF n < 0 THEN NegInf ELSE PosInf)
    ELSE F(IF n < 0 THEN -m ELSE m)

\* the float nearest to the exact integer n
Round(n) == Signed(n, RoundMag(Abs(n)))

FNeg(x) == [x EXCEPT !.val = -x.val]

\* x + y
FAdd(x, y) ==
    IF x.cls = "nan" \/ y.cls = "nan" THEN NaN
    ELSE IF x.cls = "inf" /\ y.cls = "inf"
         THEN (IF x.val = y.val THEN x ELSE NaN)
    ELSE IF x.cls = "inf" THEN x
    ELSE IF y.cls = "inf" THEN y
    ELSE Round(x.val + y.val)

\* x - y
FSub(x, y) == FAdd(x, FNeg(y))

\* the position of a non-NaN float in the order of the extended reals
Ord(x) == IF x.cls = "inf" THEN x.val * (MaxFinite + 1) ELSE x.val

\* x < y and x > y; every comparison with NaN is false
FLt(x, y) == x.cls # "nan" /\ y.cls # "nan" /\ Ord(x) < Ord(y)
FGt(x, y) == FLt(y, x)
\* x >= y and x <= y
FGe(x, y) == x.cls # "nan" /\ y.cls # "nan" /\ Ord(x) >= Ord(y)
FLe(x, y) == FGe(y, x)

Zero == F(0)

\* every float of the format
Floats ==
    {F(v) : v \in {w \in -MaxFinite..MaxFinite : Round(w) = F(w)}}
        \cup {PosInf, NegInf, NaN}

(***************************************************************************)
(* Arguments of deposit and withdraw, and float(amount).                   *)
(***************************************************************************)
\* an argument: its Python type and, by type, its text, integer or float
IntArg(n) == [type |-> "int", text |-> "", int |-> n, flt |-> NaN]
StrArg(s) == [type |-> "str", text |-> s, int |-> 0, flt |-> NaN]
FloatArg(x) == [type |-> "float", text |-> "", int |-> 0, flt |-> x]
NoneArg == [type |-> "NoneType", text |-> "", int |-> 0, flt |-> NaN]

\* the arguments tried: integers, numerals and other text, and None
AmountInts == {-1, 0, 1, 2, 5}
AmountTexts == {"abc", "nan", "inf"}
AmountArgs ==
    {IntArg(n) : n \in AmountInts} \cup {StrArg(s) : s \in AmountTexts}
        \cup {NoneArg}

\* float(amount): the float, or the exception raised.  A float is itself;
\* an integer is rounded to the nearest float and one beyond the finite
\* range raises OverflowError; of the texts, "nan", "inf" and "-inf" are
\* numerals and the others of AmountTexts are not.
IntToFloat(x) ==
    IF x.cls = "inf" THEN [exc |-> "OverflowError", flt |-> NaN]
    ELSE [exc |-> "", flt |-> x]

ToFloat(amount) ==
    IF amount.type = "NoneType" THEN [exc |-> "TypeError", flt |-> NaN]
    ELSE IF amount.type = "float" THEN [exc |-> "", flt |-> amount.flt]
    ELSE IF amount.type = "int" THEN IntToFloat(Round(amount.int))
    ELSE IF amount.text = "nan" THEN [exc |-> "", flt |-> NaN]
    ELSE IF amount.text = "inf" THEN [exc |-> "", flt |-> PosInf]
    ELSE IF amount.text = "-inf" THEN [exc |-> "", flt |-> NegInf]
    ELSE [exc |-> "ValueError", flt |-> NaN]

(***************************************************************************)
(* Account objects.  A BasicAccount has no overdraftLimit and no overdraft *)
(* attribute: its record carries Zero and FALSE there, which no method of  *)
(* BasicAccount reads.  cardNum and cardExp are <<>> while the attribute   *)
(* does not exist.  alive is FALSE once the object has been finalised.     *)
(***************************************************************************)
Absent == <<>>

Names == {"Ann"}
OpeningBalances == {F(-1), F(0), F(3)}
OverdraftLimits == {F(-1), F(0), F(2)}

\* what a call leaves: the object, the value returned ("None", "True",
\* "False") or the exception that left the call, and the lines printed
Outcome(self, ret, out) == [self |-> self, ret |-> ret, out |-> out]

\* openAccount without the increment
openAccountNoIncrement(num) == num

\* BasicAccount.openAccount: the new value of BasicAccount.account_num
openAccount(num) == num + 1

\* BasicAccount.__init__, given the counter before the call
BasicInit(num, theAcName, theOpeningBalance) ==
    [cls |-> "BasicAccount",
     balance |-> theOpeningBalance,
     name |-> theAcName,
     acNum |-> openAccount(num),
     overdraftLimit |-> Zero,
     overdraft |-> FALSE,
     cardNum |-> Absent,
     cardExp |-> Absent,
     alive |-> TRUE]

\* PremiumAccount.__init__
PremiumInit(num, theAcName, theOpeningBalance, theInitialOverdraft) ==
    [BasicInit(num, theAcName, theOpeningBalance) EXCEPT
        !.cls = "PremiumAccount",
        !.overdraftLimit = theInitialOverdraft,
        !.overdraft = FALSE]

\* what try: float(amount) leaves when an exception is raised: ValueError
\* is caught and reported, any other exception leaves the method
Raised(self, c) ==
    IF c.exc = "ValueError"
    THEN Outcome(self, "None", <<"Not a number. Try again.">>)
    ELSE Outcome(self, c.exc, <<>>)

\* deposit without the test for a negative amount
BasicDepositNoSignTest(self, amount) ==
    IF ToFloat(amount).exc # "" THEN Raised(self, ToFloat(amount))
    ELSE Outcome([self EXCEPT
                     !.balance = FAdd(self.balance, ToFloat(amount).flt)],
                 "None", <<"New balance is">>)

\* the else: branch of BasicAccount.deposit, for flt_amount
BasicDepositElse(self, flt_amount) ==
    IF FLt(flt_amount, Zero)
    THEN Outcome(self, "None", <<"Negative input not allowed.">>)
    ELSE Outcome([self EXCEPT !.balance = FAdd(self.balance, flt_amount)],
                 "None", <<"New balance is">>)

\* BasicAccount.deposit after c = float(amount)
BasicDepositTry(self, c) ==
    IF c.exc # "" THEN Raised(self, c) ELSE BasicDepositElse(self, c.flt)

\* BasicAccount.deposit
BasicDeposit(self, amount) == BasicDepositTry(self, ToFloat(amount))

\* the else: branch of BasicAccount.withdraw, for flt_amount
BasicWithdrawElse(self, flt_amount) ==
    IF FLt(flt_amount, Zero)
    THEN Outcome(self, "None", <<"Negative input not allowed.">>)
    ELSE IF FGt(flt_amount, self.balance)
    THEN Outcome(self, "None", <<"Can not withdraw">>)
    ELSE Outcome([self EXCEPT !.balance = FSub(self.balance, flt_amount)],
                 "None", <<"has withdrawn">>)

\* BasicAccount.withdraw after c = float(amount)
BasicWithdrawTry(self, c) ==
    IF c.exc # "" THEN Raised(self, c) ELSE BasicWithdrawElse(self, c.flt)

\* BasicAccount.withdraw
BasicWithdraw(self, amount) == BasicWithdrawTry(self, ToFloat(amount))

\* BasicAccount.getAvailableBalance and BasicAccount.getBalance
BasicGetAvailableBalance(self) == self.balance
getBalance(self) == self.balance

\* PremiumAccount.setOverdraftLimit
setOverdraftLimit(self, newLimit) ==
    Outcome([self EXCEPT !.overdraftLimit = newLimit], "None", <<>>)

\* PremiumAccount.getAvailableBalance
PremiumGetAvailableBalance(self) ==
    FAdd(BasicGetAvailableBalance(self), self.overdraftLimit)

\* deposit that clears the flag as soon as the balance is not below zero
PremiumDepositAfterNotBelow(b) ==
    IF b.ret # "None" THEN b
    ELSE IF b.self.overdraft /\ FGe(b.self.balance, Zero)
    THEN [b EXCEPT !.self.overdraft = FALSE]
    ELSE b

\* PremiumAccount.deposit after b = super().deposit(amount): an exception
\* of the base deposit leaves the method before the flag is looked at
PremiumDepositAfter(b) ==
    IF b.ret # "None" THEN b
    ELSE IF b.self.overdraft /\ FGt(b.self.balance, Zero)
    THEN [b EXCEPT !.self.overdraft = FALSE]
    ELSE b

\* PremiumAccount.deposit
PremiumDeposit(self, amount) == PremiumDepositAfter(BasicDeposit(self, amount))

\* PremiumAccount.withdraw once the balance is bal: the flag is set when
\* the withdrawal used the overdraft
PremiumWithdrawn(self, bal) ==
    Outcome([self EXCEPT
                 !.balance = bal,
                 !.overdraft = IF FLt(bal, Zero) THEN TRUE ELSE @],
            "None", <<"has withdrawn">>)

\* the else: branch of PremiumAccount.withdraw, for flt_amount
PremiumWithdrawElse(self, flt_amount) ==
    IF FLt(flt_amount, Zero)
    THEN Outcome(self, "None", <<"Negative input not allowed.">>)
    ELSE IF FGt(flt_amount, FAdd(self.balance, self.overdraftLimit))
    THEN Outcome(self, "None", <<"Can not withdraw">>)
    ELSE PremiumWithdrawn(self, FSub(self.balance, flt_amount))

\* PremiumAccount.withdraw after c = float(amount)
PremiumWithdrawTry(self, c) ==
    IF c.exc # "" THEN Raised(self, c) ELSE PremiumWithdrawElse(self, c.flt)

\* PremiumAccount.withdraw
PremiumWithdraw(self, amount) == PremiumWithdrawTry(self, ToFloat(amount))

\* the method a call resolves to on the object's class
deposit(self, amount) ==
    IF self.cls = "PremiumAccount" THEN PremiumDeposit(self, amount)
    ELSE BasicDeposit(self, amount)

withdraw(self, amount) ==
    IF self.cls = "PremiumAccount" THEN PremiumWithdraw(self, amount)
    ELSE BasicWithdraw(self, amount)

getAvailableBalance(self) ==
    IF self.cls = "PremiumAccount" THEN PremiumGetAvailableBalance(self)
    ELSE BasicGetAvailableBalance(self)

(***************************************************************************)
(* Cards.  A string of digits is a sequence of the digits 0..9.            *)
(***************************************************************************)
\* str(n) for an integer n >= 0
RECURSIVE Str(_)
Str(n) == IF n < 10 THEN <<n>> ELSE Append(Str(n \div 10), n % 10)

\* int(s) for a non-empty string of digits
RECURSIVE ParseInt(_)
ParseInt(s) ==
    IF Len(s) = 1 THEN s[1]
    ELSE 10 * ParseInt(SubSeq(s, 1, Len(s) - 1)) + s[Len(s)]

\* s[2:]
DropTwo(s) == SubSeq(s, 3, Len(s))

\* the number of digits drawn for a card number: range(0, 16)
CardDigits == 16

\* card_num after the loop over the draws x[1], ..., x[n] of randint(0, 9)
RECURSIVE CardNum(_, _)
CardNum(x, n) == IF n = 0 THEN <<>> ELSE CardNum(x, n - 1) \o Str(x[n])

\* a reading of datetime.datetime.now(): the year and the month
Instant(y, m) == [year |-> y, month |-> m]

\* BasicAccount.issueNewCard, given the two readings of the clock, in the
\* order of the calls, and the draws of random.randint(0, 9)
issueNewCard(self, now1, now2, x) ==
    LET exp_year == now1.year + 3
        month == now2.month
    IN  Outcome([self EXCEPT
                     !.cardExp = <<month, ParseInt(DropTwo(Str(exp_year)))>>,
                     !.cardNum = CardNum(x, CardDigits)],
                "None", <<>>)

(***************************************************************************)
(* Closure.                                                                *)
(***************************************************************************)
\* BasicAccount.closeAccount after w = self.withdraw(self.balance)
BasicClosed(w) == Outcome(w.self, "True", w.out \o <<"Closing account.">>)

\* BasicAccount.closeAccount: self.withdraw resolves on the object's class
BasicCloseAccount(self) == BasicClosed(withdraw(self, FloatArg(self.balance)))

\* PremiumAccount.closeAccount after b = super().closeAccount(): the value
\* of the base closure is not returned
PremiumClosed(b) == Outcome(b.self, "None", b.out)

\* closeAccount that tests the balance instead of the flag
PremiumCloseAccountByBalance(self) ==
    IF FLt(self.balance, Zero)
    THEN Outcome(self, "False", <<"Can not close account">>)
    ELSE PremiumClosed(BasicCloseAccount(self))

\* PremiumAccount.closeAccount
PremiumCloseAccount(self) ==
    IF self.overdraft
    THEN Outcome(self, "False", <<"Can not close account">>)
    ELSE PremiumClosed(BasicCloseAccount(self))

closeAccount(self) ==
    IF self.cls = "PremiumAccount" THEN PremiumCloseAccount(self)
    ELSE BasicCloseAccount(self)

\* BasicAccount.__del__ after c = self.closeAccount(): the value is dropped
Deleted(c) == Outcome(c.self, "None", c.out)

\* BasicAccount.__del__
Del(self) == Deleted(closeAccount(self))

(***************************************************************************)
(* The program: a caller that constructs accounts, calls their methods in  *)
(* any order with any arguments, and drops them.  accounts holds every     *)
(* object constructed, in the order of construction; of a finalised object *)
(* only its account number is remembered.  last records the latest call:   *)
(* the method, the index of the object in accounts, the arguments, the     *)
(* object and the counter before the call, the value returned and the      *)
(* lines printed.                                                          *)
(***************************************************************************)
\* the clock readings tried, and the reading one month later
Clock == {Instant(2026, 12), Instant(2097, 5)}
Tick(now) ==
    IF now.month = 12 THEN Instant(now.year + 1, 1)
    ELSE Instant(now.year, now.month + 1)

\* the readings of two calls of datetime.datetime.now() one after the
\* other: the clock may pass into the next month between them
ClockPairs == {<<now, now>> : now \in Clock} \cup {<<now, Tick(now)>> : now \in Clock}

\* the draws of random.randint(0, 9) tried
RandomDraws ==
    {[i \in 1..CardDigits |-> 0], [i \in 1..CardDigits |-> (7 * i) % 10]}

NoAccount == BasicInit(-1, "", NaN)

\* what is remembered of a finalised object
Gone(self) == [NoAccount EXCEPT !.acNum = self.acNum, !.alive = FALSE]

NoCall ==
    [op |-> "", idx |-> 0, amount |-> NoneArg, newLimit |-> NaN,
     now1 |-> Instant(0, 0), now2 |-> Instant(0, 0), x |-> <<>>,
     pre |-> NoAccount, num |-> 0, ret |-> "None", out |-> <<>>]

\* the record of a call of op on accounts[i] that left the outcome o;
\* args holds the arguments of the call
Call(op, i, o, args) ==
    [args EXCEPT !.op = op, !.idx = i, !.pre = accounts[i],
                 !.num = account_num, !.ret = o.ret, !.out = o.out]

\* a call of op on accounts[i] that leaves the outcome o and the object obj
Step(op, i, o, obj, args) ==
    /\ accounts' = [accounts EXCEPT ![i] = obj]
    /\ last' = Call(op, i, o, args)
    /\ UNCHANGED account_num

\* a construction that leaves the object obj
Construct(obj, args) ==
    /\ account_num' = openAccount(account_num)
    /\ accounts' = Append(accounts, obj)
    /\ last' = [args EXCEPT !.op = "__init__", !.idx = Len(accounts) + 1,
                            !.num = account_num]

Alive == {i \in 1..Len(accounts) : accounts[i].alive}

Init ==
    /\ account_num = 0
    /\ accounts = <<>>
    /\ last = NoCall

\* BasicAccount(theAcName, theOpeningBalance), when the caller has room
NewBasicAccount(room, Openings) ==
    /\ room
    /\ Len(accounts) < MaxAccounts
    /\ \E theAcName \in Names, theOpeningBalance \in Openings :
          Construct(BasicInit(account_num, theAcName, theOpeningBalance),
                    NoCall)

\* PremiumAccount(theAcName, theOpeningBalance, theInitialOverdraft)
NewPremiumAccount(room, Openings, Limits) ==
    /\ room
    /\ Len(accounts) < MaxAccounts
    /\ \E theAcName \in Names, theOpeningBalance \in Openings,
          theInitialOverdraft \in Limits :
          Construct(PremiumInit(account_num, theAcName, theOpeningBalance,
                                theInitialOverdraft),
                    [NoCall EXCEPT !.newLimit = theInitialOverdraft])

\* a call that leaves the outcome o, whose object stays with the caller
Method(op, i, o, args) == Step(op, i, o, o.self, args)

\* accounts[i].deposit(amount)
Deposit(Amounts) ==
    \E i \in Alive, amount \in Amounts :
        Method("deposit", i, deposit(accounts[i], amount),
               [NoCall EXCEPT !.amount = amount])

\* accounts[i].withdraw(amount)
Withdraw(Amounts) ==
    \E i \in Alive, amount \in Amounts :
        Method("withdraw", i, withdraw(accounts[i], amount),
               [NoCall EXCEPT !.amount = amount])

\* accounts[i].setOverdraftLimit(newLimit), a method of PremiumAccount only
SetOverdraftLimit(Limits) ==
    \E i \in Alive, newLimit \in Limits :
        /\ accounts[i].cls = "PremiumAccount"
        /\ Method("setOverdraftLimit", i,
                  setOverdraftLimit(accounts[i], newLimit),
                  [NoCall EXCEPT !.newLimit = newLimit])

\* accounts[i].issueNewCard(), for the readings now[1] and now[2] of the
\* two calls of datetime.datetime.now()
IssueNewCard(Readings, Draws) ==
    \E i \in Alive, now \in Readings, x \in Draws :
        Method("issueNewCard", i,
               issueNewCard(accounts[i], now[1], now[2], x),
               [NoCall EXCEPT !.now1 = now[1], !.now2 = now[2], !.x = x])

\* accounts[i].closeAccount()
CloseAccount ==
    \E i \in Alive :
        Method("closeAccount", i, closeAccount(accounts[i]), NoCall)

\* finalisation that gives the account number back to the counter
FinalizedReleasesNumber(op, i, o) ==
    /\ accounts' = [accounts EXCEPT ![i] = Gone(o.self)]
    /\ last' = Call(op, i, o, NoCall)
    /\ account_num' = account_num - 1

\* the object the caller is left with after o = accounts[i].__del__()
Finalized(op, i, o) == Step(op, i, o, Gone(o.self), NoCall)

\* the last reference to accounts[i] is dropped: __del__ runs
Finalize ==
    \E i \in Alive : Finalized("__del__", i, Del(accounts[i]))

\* A caller that holds one account at a time and tries every argument.
Next ==
    \/ NewBasicAccount(Alive = {}, OpeningBalances)
    \/ NewPremiumAccount(Alive = {}, OpeningBalances, OverdraftLimits)
    \/ Deposit(AmountArgs)
    \/ Withdraw(AmountArgs)
    \/ SetOverdraftLimit(OverdraftLimits)
    \/ IssueNewCard(ClockPairs, RandomDraws)
    \/ CloseAccount
    \/ Finalize

Spec == Init /\ [][Next]_vars

\* A caller that holds all its accounts at once and tries few arguments:
\* as the amount the largest finite float and a text that is no numeral,
\* and one reading of the clock.
FewAmounts == {IntArg(MaxFinite), StrArg("abc")}
FewReadings == {<<Instant(2026, 6), Instant(2026, 6)>>}
FewDraws == {[i \in 1..CardDigits |-> 0]}

NextMany ==
    \/ NewBasicAccount(TRUE, {Zero})
    \/ NewPremiumAccount(TRUE, {Zero}, {Zero})
    \/ Deposit(FewAmounts)
    \/ Withdraw(FewAmounts)
    \/ SetOverdraftLimit({Zero})
    \/ IssueNewCard(FewReadings, FewDraws)
    \/ CloseAccount
    \/ Finalize

SpecMany == Init /\ [][NextMany]_vars

TypeOK ==
    /\ account_num \in 0..MaxAccounts
    /\ Len(accounts) = account_num
    /\ \A i \in 1..Len(accounts) :
          /\ accounts[i].balance \in Floats
          /\ accounts[i].overdraftLimit \in Floats
          /\ accounts[i].overdraft \in BOOLEAN

(***************************************************************************)
(* Properties.  Cur is the object of the latest call, after the call, and  *)
(* Pre the same object before it.                                          *)
(***************************************************************************)
Cur == accounts[last.idx]
Pre == last.pre
OnBasic(op) == last.op = op /\ Pre.cls = "BasicAccount"
OnPremium(op) == last.op = op /\ Pre.cls = "PremiumAccount"

\* float(amount) gave a float
Numeric(amount) == ToFloat(amount).exc = ""

\* C1: the balance of every BasicAccount is >= 0 after every operation,
\* construction with any opening balance included.
C1_BasicBalanceNonNegative ==
    \A i \in Alive :
        accounts[i].cls = "BasicAccount" => FGe(accounts[i].balance, Zero)

\* C2: the balance of every PremiumAccount is >= -overdraftLimit in every
\* reachable state.
C2_PremiumBalanceWithinLimit ==
    \A i \in Alive :
        accounts[i].cls = "PremiumAccount"
            => FGe(accounts[i].balance, FNeg(accounts[i].overdraftLimit))

\* C3: after every deposit and every withdraw on a PremiumAccount, failed
\* or not, the flag overdraft is true exactly when balance < 0.
C3_FlagIffNegative ==
    (OnPremium("deposit") \/ OnPremium("withdraw"))
        => (Cur.overdraft <=> FLt(Cur.balance, Zero))

\* the amount is rejected as invalid: float(amount) raises, or gives a
\* float below zero
InvalidAmount(amount) ==
    \/ ~Numeric(amount)
    \/ FLt(ToFloat(amount).flt, Zero)

\* the amount is above what the account can pay out
InsufficientFunds(self, amount) ==
    /\ Numeric(amount)
    /\ FGt(ToFloat(amount).flt, getAvailableBalance(self))

FailedCall ==
    \/ last.op = "deposit" /\ InvalidAmount(last.amount)
    \/ last.op = "withdraw" /\ InvalidAmount(last.amount)
    \/ last.op = "withdraw" /\ InsufficientFunds(Pre, last.amount)

\* C4: a deposit or withdraw that fails, on either class, because the
\* amount is invalid or above the available balance, leaves every attribute
\* of the account and the counter as they were.
C4_FailedCallChangesNothing ==
    FailedCall => Cur = Pre /\ account_num = last.num

\* failed calls of both methods on both classes have happened, among them a
\* withdrawal refused for insufficient funds on an overdrawn PremiumAccount
C4_Witness ==
    /\ OnPremium("withdraw")
    /\ InsufficientFunds(Pre, last.amount)
    /\ ~InvalidAmount(last.amount)
    /\ Pre.overdraft
    /\ "Can not withdraw" = last.out[1]

\* C5: closeAccount on a PremiumAccount whose flag overdraft is true
\* returns False and leaves balance, overdraftLimit and the flag unchanged.
C5_OverdrawnCloseRejected ==
    (OnPremium("closeAccount") /\ Pre.overdraft)
        => /\ last.ret = "False"
           /\ Cur.balance = Pre.balance
           /\ Cur.overdraftLimit = Pre.overdraftLimit
           /\ Cur.overdraft = Pre.overdraft
           /\ Cur.alive

\* closeAccount has been refused on an account the flag says is overdrawn
\* while its balance is not negative
C5_Witness ==
    /\ OnPremium("closeAccount")
    /\ Pre.overdraft
    /\ Pre.balance = Zero
    /\ last.ret = "False"

\* C6: closeAccount on a PremiumAccount whose flag overdraft is false
\* leaves the balance at exactly 0 and returns True, as the base closure
\* does.
C6_GoodStandingCloseSucceeds ==
    (OnPremium("closeAccount") /\ ~Pre.overdraft)
        => Cur.balance = Zero /\ last.ret = "True"

\* C7: closeAccount on a BasicAccount, in any reachable state, leaves the
\* balance at exactly 0 and returns True.
C7_BasicCloseEmptiesAccount ==
    OnBasic("closeAccount") => Cur.balance = Zero /\ last.ret = "True"

\* C8: every construction, of either class, raises the counter by exactly
\* one and gives the new value to the account, so that the account numbers
\* are strictly increasing in the order of construction, whatever was
\* called on the accounts in between.
C8_AccountNumbersIncrease ==
    /\ \A i, j \in 1..Len(accounts) :
          i < j => accounts[i].acNum < accounts[j].acNum
    /\ last.op = "__init__"
          => account_num = last.num + 1 /\ Cur.acNum = account_num

\* every account has been constructed, accounts of both classes are alive
\* together, and a method has been called since the last construction
C8_Witness ==
    /\ Len(accounts) = MaxAccounts
    /\ \E i, j \in Alive :
          /\ accounts[i].cls = "BasicAccount"
          /\ accounts[j].cls = "PremiumAccount"
          /\ i < j
    /\ last.op = "withdraw"

\* C9: after deposit(a) with a >= 0, a withdraw(a) that the available
\* balance allows returns the balance to what it was before the deposit.
C9_DepositWithdrawRoundTrip ==
    (/\ last.op = "deposit"
     /\ Numeric(last.amount)
     /\ FGe(ToFloat(last.amount).flt, Zero)
     /\ FLe(ToFloat(last.amount).flt, getAvailableBalance(Cur)))
        => withdraw(Cur, last.amount).self.balance = Pre.balance

\* a string of exactly 16 characters, each a digit
IsCardNumber(s) == Len(s) = 16 /\ \A k \in 1..Len(s) : s[k] \in 0..9

\* the month and the two-digit year three years on, at one instant
Expiry(now) == <<now.month, (now.year + 3) % 100>>

\* C10: issueNewCard leaves a cardNum of exactly 16 digits and a cardExp of
\* (current month, (current year + 3) mod 100), the current instant being
\* one instant of the call; both are absent before the first call and set
\* after it; balance, overdraftLimit, overdraft, acNum and the counter are
\* unchanged.
C10_IssueNewCard ==
    /\ \A i \in Alive :
          (accounts[i].cardNum = Absent) <=> (accounts[i].cardExp = Absent)
    /\ last.op = "__init__" => Cur.cardNum = Absent /\ Cur.cardExp = Absent
    /\ last.op = "issueNewCard"
          => /\ IsCardNumber(Cur.cardNum)
             /\ Cur.cardNum = last.x
             /\ Cur.cardExp \in {Expiry(last.now1), Expiry(last.now2)}
             /\ Cur.cardExp[1] \in 1..12
             /\ Cur = [Pre EXCEPT !.cardNum = Cur.cardNum,
                                  !.cardExp = Cur.cardExp]
             /\ account_num = last.num

\* the latest call was a deposit or a withdraw that went through
Succeeded == last.op \in {"deposit", "withdraw"} /\ ~FailedCall

\* a call of a method on an object that is still with the caller
MethodCall == last.op \in {"deposit", "withdraw", "setOverdraftLimit",
                           "issueNewCard", "closeAccount"}

WithdrawAmount == ToFloat(last.amount).flt
NonNegativeWithdraw ==
    /\ last.op = "withdraw"
    /\ Numeric(last.amount)
    /\ FGe(WithdrawAmount, Zero)

\* the withdrawal was carried out
Withdrawn == last.out # <<>> /\ last.out[1] = "has withdrawn"

\* C12: withdraw(a) for a numeric a >= 0 is carried out exactly when
\* a <= balance on a BasicAccount and a <= getAvailableBalance() on a
\* PremiumAccount; a withdrawal carried out lowers the balance by exactly
\* a; a withdrawal of exactly the available balance is carried out.
C12_WithdrawalGuard ==
    NonNegativeWithdraw
        => /\ Pre.cls = "BasicAccount"
                 => (Withdrawn <=> FLe(WithdrawAmount, Pre.balance))
           /\ Pre.cls = "PremiumAccount"
                 => (Withdrawn
                        <=> FLe(WithdrawAmount, PremiumGetAvailableBalance(Pre)))
           /\ (Withdrawn /\ Pre.balance.cls = "finite"
                         /\ WithdrawAmount.cls = "finite")
                 => Cur.balance = F(Pre.balance.val - WithdrawAmount.val)
           /\ WithdrawAmount = getAvailableBalance(Pre) => Withdrawn

\* C13: closeAccount on a PremiumAccount returns False only when the
\* balance is below zero: the closure of an account whose balance is >= 0,
\* one that has paid its overdraft back to exactly 0 included, is not
\* rejected.
C13_CloseRejectedOnlyBelowZero ==
    OnPremium("closeAccount")
        => /\ last.ret = "False" => FLt(Pre.balance, Zero)
           /\ FGe(Pre.balance, Zero) => last.ret # "False"

\* C14: deposit, withdraw, setOverdraftLimit, issueNewCard, closeAccount and
\* finalisation leave the name and the account number of the account, and
\* the counter account_num, as they were; only a construction moves the
\* counter, and upwards, so that no two objects ever constructed, those
\* closed or finalised included, have the same account number.
C14_IdentityFrozen ==
    /\ MethodCall
          => /\ Cur.name = Pre.name
             /\ Cur.acNum = Pre.acNum
             /\ account_num = last.num
    /\ last.op = "__del__"
          => /\ Del(Pre).self.name = Pre.name
             /\ Del(Pre).self.acNum = Pre.acNum
             /\ Cur.acNum = Pre.acNum
             /\ account_num = last.num
    /\ last.op = "__init__" => account_num > last.num
    /\ \A i, j \in 1..Len(accounts) :
          i # j => accounts[i].acNum # accounts[j].acNum
    /\ \A i \in 1..Len(accounts) : accounts[i].acNum \in 1..account_num

\* a second account, constructed after the first was finalised and since
\* given a card, has been finalised in its turn
C14_Witness ==
    /\ OnPremium("__del__")
    /\ last.idx = 2
    /\ ~accounts[1].alive
    /\ Pre.cardNum # Absent
    /\ Pre.name = "Ann"
    /\ Pre.acNum = 2

====
